---- MODULE Spec2Model ----
(***************************************************************************)
(* A model of the emca backend (src/main.py, src/models.py): three tables  *)
(* (admins, projects, contact_messages), the upload directory, the clock,  *)
(* the requests in flight, and the request handlers.  A handler is one     *)
(* action where it makes one statement on the store, and one action per    *)
(* step where other requests can run between its steps: the dependency     *)
(* get_current_admin runs before the handler body is scheduled, a lookup   *)
(* and the commit that follows it are separate statements of a session     *)
(* without lock, and create_project awaits between opening its file and    *)
(* writing it.  Every step that answers records the response in `resp`.    *)
(*                                                                         *)
(* Time is counted in ticks, TicksPerSecond of them to a second, because   *)
(* the code mixes sub-second datetimes (datetime.utcnow()) with values     *)
(* truncated to whole seconds (the JWT exp claim, strftime("%H:%M:%S")).   *)
(* Character strings that the code slices or strips (the request base URL) *)
(* are sequences of one-character strings; the others are opaque.          *)
(***************************************************************************)
EXTENDS Integers, Sequences, FiniteSets, TLC

VARIABLES
    admins,      \* table admins: sequence of rows, in id order
    calls,       \* the requests in flight, per worker: position, inputs, row loaded
    projects,    \* table projects: sequence of rows, in id order
    messages,    \* table contact_messages: sequence of rows, in id order
    files,       \* upload directory: filename -> the file's bytes, or NoFile
    now,         \* the server clock (datetime.utcnow()), in ticks
    issued,      \* tokens handed out by login_admin, with their issue time
    contactLog,  \* history: the accepted contact submissions, with request time
    created,     \* history: id -> what create_project was given, until the id is updated or deleted
    deleted,     \* history: ids removed by delete_project
    resp,        \* the response to the latest request
    admitted     \* history: how many requests the handlers that change projects have taken up

vars == <<admins, calls, projects, messages, files, now, issued,
          contactLog, created, deleted, resp, admitted>>

----------------------------------------------------------------------------
(* Bounds of the model *)

TicksPerSecond == 2
MaxExtraTicks == 4
MaxTokens == 2
MaxProjects == 2
MaxProjectId == 3
MaxMessages == 2
MaxRequests == 3

(* Program constants *)

ACCESS_TOKEN_EXPIRE_MINUTES == 30
DEFAULT_EXPIRE_MINUTES == 15
SecondsPerMinute == 60

SECRET_KEY == "fallback_secret_key"
OtherKey == "attacker_key"

----------------------------------------------------------------------------
(* Input domains *)

Usernames == {"admin", "bob"}
Passwords == {"pw", "wrong"}
Salts == {"s1", "s2"}
Workers == {1, 2}

NoSub == "<none>"
NoToken == [sub |-> NoSub, exp |-> 0, sig |-> <<"<missing>">>]
\* a file's content is a sequence of blocks of bytes
File(data) == [exists |-> TRUE, data |-> data]
NoFile == [exists |-> FALSE, data |-> <<>>]
EmptyFile == File(<<>>)

\* buffer.write(data) through a handle at offset 0: the bytes replace the head of what
\* the file holds by then, and what lies beyond them stays
write(file, data) == File(data \o SubSeq(file.data, Len(data) + 1, Len(file.data)))
NoRow == [id |-> 0]

Max(S) == CHOOSE x \in S : \A y \in S : y <= x

SeqToSet(s) == {s[i] : i \in 1..Len(s)}

----------------------------------------------------------------------------
(* Time *)

\* timegm(dt.utctimetuple()): a datetime cut down to whole seconds
utc_seconds(t) == t \div TicksPerSecond

\* timedelta(minutes=m), in ticks
timedelta_minutes(m) == m * SecondsPerMinute * TicksPerSecond

\* faulty variant: the format without its seconds, "%Y-%m-%d %H:%M"
strftime_minutes(t) == (utc_seconds(t) \div SecondsPerMinute) * SecondsPerMinute

\* msg.timestamp.strftime("%Y-%m-%d %H:%M:%S"): the text names a whole second
strftime(t) == utc_seconds(t)

\* the instant a formatted timestamp denotes, in ticks
strptime(s) == s * TicksPerSecond

----------------------------------------------------------------------------
(* Password hashing: pwd_context (bcrypt) *)

digest(salt, password) == <<salt, password>>

pwd_hash(salt, password) == [salt |-> salt, digest |-> digest(salt, password)]

pwd_verify(password, h) == h.digest = digest(h.salt, password)

----------------------------------------------------------------------------
(* Signed tokens: jose.jwt with HS256 *)

hmac(key, sub, exp) == <<key, sub, exp>>

\* jwt.encode: a datetime exp claim is stored as whole seconds
jwt_encode(sub, expire, key) ==
    [sub |-> sub, exp |-> utc_seconds(expire), sig |-> hmac(key, sub, utc_seconds(expire))]

\* jwt.decode raises JWTError: bad signature, or exp < now (whole seconds)
jwt_signature_ok(token) == token.sig = hmac(SECRET_KEY, token.sub, token.exp)

\* faulty variant: expiry not verified
jwt_never_expired(token, t) == FALSE

jwt_expired(token, t) == token.exp < utc_seconds(t)

jwt_decode_fails(token, t) == ~jwt_signature_ok(token) \/ jwt_expired(token, t)

\* expires_delta omitted (None) and timedelta(0) are both falsy
NoDelta == 0

\* expires_delta or timedelta(minutes=15)
create_access_token(sub, expires_delta, t) ==
    LET delta == IF expires_delta = NoDelta THEN timedelta_minutes(DEFAULT_EXPIRE_MINUTES)
                 ELSE expires_delta
    IN  jwt_encode(sub, t + delta, SECRET_KEY)

----------------------------------------------------------------------------
(* Queries on the admins table *)

AdminsNamed(tbl, username) == {i \in 1..Len(tbl) : tbl[i].username = username}

\* db.query(Admin).filter(Admin.username == username).first()
first_admin(tbl, username) ==
    IF AdminsNamed(tbl, username) = {} THEN NoRow
    ELSE tbl[CHOOSE i \in AdminsNamed(tbl, username) :
                 \A j \in AdminsNamed(tbl, username) : i <= j]

authenticate_admin(tbl, username, password) ==
    LET admin == first_admin(tbl, username) IN
    IF admin = NoRow THEN NoRow
    ELSE IF ~pwd_verify(password, admin.password_hash) THEN NoRow
    ELSE admin

\* `not username`: the subject is absent or the empty string
Falsy(sub) == sub \in {NoSub, ""}

\* OAuth2PasswordBearer: no bearer credential in the request
oauth2_scheme(token) ==
    IF token = NoToken THEN [status |-> 401, detail |-> "Not authenticated"]
    ELSE [status |-> 200, detail |-> ""]

\* Depends(oauth2_scheme), then jwt.decode, which reads the clock, and the test of
\* the subject
get_current_admin_decode(token, t) ==
    IF oauth2_scheme(token).status # 200 THEN oauth2_scheme(token)
    ELSE IF jwt_decode_fails(token, t) THEN [status |-> 401, detail |-> "Invalid authentication"]
    ELSE IF Falsy(token.sub) THEN [status |-> 401, detail |-> "Invalid authentication"]
    ELSE [status |-> 200, detail |-> ""]

\* faulty variant: a separate message for a subject that names no Admin
get_current_admin_query_leaky(tbl, token) ==
    IF first_admin(tbl, token.sub) = NoRow
    THEN [status |-> 401, detail |-> "Admin not found"]
    ELSE [status |-> 200, detail |-> ""]

\* the query for the Admin named by the subject, a statement of its own
get_current_admin_query(tbl, token) ==
    IF first_admin(tbl, token.sub) = NoRow
    THEN [status |-> 401, detail |-> "Invalid authentication"]
    ELSE [status |-> 200, detail |-> ""]

\* get_current_admin when nothing happens between its decode and its query
get_current_admin(tbl, token, t) ==
    IF get_current_admin_decode(token, t).status # 200 THEN get_current_admin_decode(token, t)
    ELSE get_current_admin_query(tbl, token)

Resolves(tbl, token, t) == get_current_admin(tbl, token, t).status = 200

----------------------------------------------------------------------------
(* Responses and requests in flight *)

Response(op, req, status, detail, body) ==
    [op |-> op, req |-> req, status |-> status, detail |-> detail, body |-> body]

NoResponse == Response("none", <<>>, 0, "", <<>>)

\* where a request stands: its handler, its inputs, the row its session has loaded
Call(pc, op, req, row) == [pc |-> pc, op |-> op, req |-> req, row |-> row]

Idle == Call("idle", "", <<>>, NoRow)

Begin(w, pc, op, req) == calls' = [calls EXCEPT ![w] = Call(pc, op, req, NoRow)]

Goto(w, pc, row) == calls' = [calls EXCEPT ![w] = Call(pc, calls[w].op, calls[w].req, row)]

End(w) == calls' = [calls EXCEPT ![w] = Idle]

At(w, op, pc) == calls[w].op = op /\ calls[w].pc = pc

Answer(w, status, detail, body) ==
    resp' = Response(calls[w].op, calls[w].req, status, detail, body)

\* an exception no handler catches: the session is rolled back and closed
ServerError(w) == Answer(w, 500, "Internal Server Error", <<>>)

\* the requests that change projects are followed up to MaxRequests of them; one that
\* is answered at once does not count
Admitted(w) ==
    IF calls'[w].pc = "idle" THEN admitted' = admitted
    ELSE admitted < MaxRequests /\ admitted' = admitted + 1

----------------------------------------------------------------------------
(* POST /register-admin/, in two steps: the lookup (main.py 124-125), then *)
(* hash, add and commit (main.py 127-131).  Handlers declared with `def`   *)
(* run on worker threads, each with a session of its own, so the steps of  *)
(* two requests interleave.                                                *)

\* faulty variant: the column declared without unique=True
unique_username_off(tbl, username) == TRUE

\* Column(String, unique=True): the store refuses a second row with the name
unique_username_ok(tbl, username) == AdminsNamed(tbl, username) = {}

\* Column(Integer, primary_key=True) on SQLite: the largest id in the table plus one
next_id(tbl) == IF Len(tbl) = 0 THEN 1 ELSE Max({tbl[i].id : i \in 1..Len(tbl)}) + 1

\* the body of POST /register-admin/: {username, password}
AdminCreate == [username : Usernames, password : Passwords]

\* faulty variant: the handler without its lookup of the username
register_admin_unchecked(w, username, password) ==
    /\ calls[w].pc = "idle"
    /\ Begin(w, "checked", "register_admin", [username |-> username, password |-> password])
    /\ UNCHANGED <<admins, projects, messages, files, now, issued, contactLog, created,
                   deleted, resp, admitted>>

register_admin_lookup(w, username, password) ==
    /\ calls[w].pc = "idle"
    /\ IF first_admin(admins, username) # NoRow
       THEN /\ resp' = Response("register_admin", [username |-> username, password |-> password],
                                400, "Admin already exists", <<>>)
            /\ calls' = calls
       ELSE /\ Begin(w, "checked", "register_admin",
                     [username |-> username, password |-> password])
            /\ resp' = resp
    /\ UNCHANGED <<admins, projects, messages, files, now, issued, contactLog, created, deleted,
                   admitted>>

register_admin_commit(w, salt) ==
    /\ At(w, "register_admin", "checked")
    /\ LET username == calls[w].req.username
           new_admin == [id |-> next_id(admins), username |-> username,
                         password_hash |-> pwd_hash(salt, calls[w].req.password)]
       IN  IF unique_username_ok(admins, username)
           THEN /\ admins' = Append(admins, new_admin)
                /\ Answer(w, 200, "Admin created successfully", <<>>)
           ELSE \* IntegrityError out of db.commit(): nothing is stored
                /\ admins' = admins
                /\ ServerError(w)
    /\ End(w)
    /\ UNCHANGED <<projects, messages, files, now, issued, contactLog, created, deleted, admitted>>

----------------------------------------------------------------------------
(* POST /token/ *)

login_admin(username, password) ==
    LET admin == authenticate_admin(admins, username, password)
        req == [username |-> username, password |-> password]
        access_token == create_access_token(admin.username,
                            timedelta_minutes(ACCESS_TOKEN_EXPIRE_MINUTES), now)
    IN  /\ IF admin = NoRow
           THEN /\ resp' = Response("login_admin", req, 401, "Invalid credentials", <<>>)
                /\ issued' = issued
           ELSE /\ \/ [token |-> access_token, iat |-> now] \in issued
                   \/ Cardinality(issued) < MaxTokens
                /\ resp' = Response("login_admin", req, 200, "", <<access_token>>)
                /\ issued' = issued \cup {[token |-> access_token, iat |-> now]}
        /\ UNCHANGED <<admins, calls, projects, messages, files, now, contactLog, created, deleted,
                   admitted>>

----------------------------------------------------------------------------
(* The clock *)

ExpireTicks == timedelta_minutes(ACCESS_TOKEN_EXPIRE_MINUTES)

ClockSteps == {1, ExpireTicks}

\* the clock is followed for MaxExtraTicks ticks from time 0 and from the expiry delay
Tick(d) ==
    /\ now + d <= ExpireTicks + MaxExtraTicks
    /\ (now + d) % ExpireTicks <= MaxExtraTicks
    /\ now' = now + d
    /\ UNCHANGED <<admins, calls, projects, messages, files, issued, contactLog, created,
                   deleted, resp, admitted>>

----------------------------------------------------------------------------
(* Depends(get_current_admin): solved in a call of its own before the body *)
(* of the handler is scheduled.  It reads the clock when it decodes the     *)
(* token and the admins table when it looks the subject up: the clock and  *)
(* the other requests go on in between.                                    *)

Authorize(w, op, req) ==
    LET payload == get_current_admin_decode(req.token, now) IN
    /\ calls[w].pc = "idle"
    /\ IF payload.status # 200
       THEN /\ resp' = Response(op, req, payload.status, payload.detail, <<>>)
            /\ calls' = calls
       ELSE /\ Begin(w, "decoded", op, req)
            /\ resp' = resp
    /\ UNCHANGED <<admins, projects, messages, files, now, issued, contactLog, created, deleted>>

\* admin = db.query(Admin).filter(Admin.username == username).first(), and its 401
get_current_admin_lookup(w) ==
    LET admin == get_current_admin_query(admins, calls[w].req.token) IN
    /\ calls[w].pc = "decoded"
    /\ IF admin.status # 200
       THEN /\ Answer(w, admin.status, admin.detail, <<>>)
            /\ End(w)
       ELSE /\ Goto(w, "authorized", NoRow)
            /\ resp' = resp
    /\ UNCHANGED <<admins, projects, messages, files, now, issued, contactLog, created, deleted,
                   admitted>>

\* faulty variant: a handler declared without Depends(get_current_admin)
Unguarded(w, op, req) ==
    /\ calls[w].pc = "idle"
    /\ Begin(w, "authorized", op, req)
    /\ UNCHANGED <<admins, projects, messages, files, now, issued, contactLog, created,
                   deleted, resp>>

----------------------------------------------------------------------------
(* POST /contact/ and GET /contact/ *)

Contacts == {[name |-> "Ann", email |-> "ann@example.org", message |-> "hello"],
             [name |-> "Ben", email |-> "ben@example.org", message |-> "quote?"]}

Saving(w) == calls[w].op = "save_message" /\ calls[w].pc # "idle"

\* ContactMessage(..., timestamp=datetime.utcnow()); db.add(new_message)
\* sent: when the caller sent the request, no later than the handler runs
save_message(w, contact, sent) ==
    LET new_message == [id |-> 0, name |-> contact.name, email |-> contact.email,
                        message |-> contact.message, timestamp |-> now]
    IN  /\ calls[w].pc = "idle"
        /\ Len(messages) + Cardinality({v \in Workers : Saving(v)}) < MaxMessages
        /\ sent <= now
        /\ calls' = [calls EXCEPT ![w] = Call("added", "save_message",
                                              [contact |-> contact, sent |-> sent],
                                              new_message)]
        /\ UNCHANGED <<admins, projects, messages, files, now, issued, contactLog, created,
                       deleted, resp, admitted>>

\* db.commit(): the row is inserted, with the next id, and the handler returns
save_message_commit(w) ==
    LET new_message == [calls[w].row EXCEPT !.id = next_id(messages)] IN
    /\ At(w, "save_message", "added")
    /\ messages' = Append(messages, new_message)
    /\ contactLog' = Append(contactLog, [id |-> new_message.id,
                                         contact |-> calls[w].req.contact,
                                         t |-> calls[w].req.sent])
    /\ Answer(w, 200, "Message received", <<>>)
    /\ End(w)
    /\ UNCHANGED <<admins, projects, files, now, issued, created, deleted, admitted>>

\* the list comprehension of get_messages
message_view(msg) ==
    [id |-> msg.id, name |-> msg.name, email |-> msg.email, message |-> msg.message,
     timestamp |-> strftime(msg.timestamp)]

get_messages_admin(w, token) ==
    Authorize(w, "get_messages", [token |-> token]) /\ UNCHANGED admitted

get_messages(w) ==
    /\ At(w, "get_messages", "authorized")
    /\ Answer(w, 200, "", [i \in 1..Len(messages) |-> message_view(messages[i])])
    /\ End(w)
    /\ UNCHANGED <<admins, projects, messages, files, now, issued, contactLog, created, deleted,
                   admitted>>

----------------------------------------------------------------------------
(* Strings the code takes apart *)

RECURSIVE lstrip(_, _)
lstrip(s, c) == IF s # <<>> /\ Head(s) = c THEN lstrip(Tail(s), c) ELSE s

RECURSIVE rstrip(_, _)
rstrip(s, c) ==
    IF s # <<>> /\ s[Len(s)] = c THEN rstrip(SubSeq(s, 1, Len(s) - 1), c) ELSE s

\* faulty variant: str.lstrip("/") in place of strip
strip_left_only(s, c) == lstrip(s, c)

\* str.strip("/")
strip(s, c) == rstrip(lstrip(s, c), c)

\* starlette Request.base_url: scheme, host and root path, closed by one "/"
request_base_url(origin) == rstrip(origin, "/") \o <<"/">>

UPLOAD_DIR == <<"uploads">>

\* f"{base_url}/uploads/{image.filename}"
image_url_of(origin, filename) ==
    strip(request_base_url(origin), "/") \o <<"/">> \o UPLOAD_DIR \o <<"/">> \o <<filename>>

----------------------------------------------------------------------------
(* Projects *)

allowed_types == {"image/png", "image/jpeg", "image/jpg"}

Filenames == {"cat.png", "dog.jpg"}

\* the contents uploaded, in blocks of four bytes: one of them is longer than the others
PNG1 == <<"PNG1", "-LON">>
JPG1 == <<"JPG1">>
JPG2 == <<"JPG2">>
TEXT == <<"TEXT">>

\* the multipart requests tried: two uploads under different names, an upload of a type
\* that is not accepted, and an upload that reuses a stored filename
CreateRequests ==
    {[title |-> "Bridge", description |-> "A bridge", origin |-> <<"http://emca.example">>,
      image |-> [filename |-> "cat.png", content_type |-> "image/png", bytes |-> PNG1]],
     [title |-> "Tower", description |-> "A tower",
      origin |-> <<"http://emca.example", "/", "api">>,
      image |-> [filename |-> "dog.jpg", content_type |-> "image/jpeg", bytes |-> JPG1]],
     [title |-> "Bridge", description |-> "A bridge", origin |-> <<"http://emca.example">>,
      image |-> [filename |-> "cat.png", content_type |-> "text/plain", bytes |-> TEXT]],
     [title |-> "Tower", description |-> "A bridge", origin |-> <<"http://emca.example">>,
      image |-> [filename |-> "cat.png", content_type |-> "image/jpg", bytes |-> JPG2]]}

\* the JSON bodies tried on PUT /projects/{id}
ProjectSchemas ==
    {[title |-> "Bridge 2", description |-> "Rebuilt",
      image_url |-> <<"http://elsewhere.example", "/", "pic.png">>]}


ProjectIds == 1..MaxProjectId

Ids(tbl) == {tbl[i].id : i \in 1..Len(tbl)}

\* db.query(Project).filter(Project.id == project_id).first()
first_project(tbl, project_id) ==
    IF project_id \in Ids(tbl) THEN tbl[CHOOSE i \in 1..Len(tbl) : tbl[i].id = project_id]
    ELSE NoRow

\* faulty variant: the delete without its filter on the id
delete_first_row(tbl, project_id) == Tail(tbl)

\* db.delete(db_project); db.commit(): DELETE ... WHERE id = project_id
delete_row(tbl, project_id) == SelectSeq(tbl, LAMBDA r : r.id # project_id)

Columns == {"title", "description", "image_url"}

\* the columns whose assigned value differs from the value the session loaded: the
\* session writes only those
Dirty(loaded, project) == {c \in Columns : project[c] # loaded[c]}

\* db.commit() after the assignments: UPDATE ... SET <dirty columns> WHERE id = project_id
update_row(tbl, project_id, project, cols) ==
    [i \in 1..Len(tbl) |->
        IF tbl[i].id = project_id
        THEN [c \in DOMAIN tbl[i] |-> IF c \in cols THEN project[c] ELSE tbl[i][c]]
        ELSE tbl[i]]

Forget(hist, project_id) == {c \in hist : c.id # project_id}

\* faulty variant: no content-type check
image_accepted_any(image) == TRUE

\* the content-type check of create_project
image_accepted(image) == image.content_type \in allowed_types

(* POST /projects/: an `async def` handler, run on the event loop.  It opens the *)
(* file, which truncates it, and awaits the upload; then it writes the file,     *)
(* commits the row and refreshes it without giving the loop back, while the      *)
(* worker threads go on.                                                         *)

Creating(w) == calls[w].op = "create_project" /\ calls[w].pc # "idle"

\* the loop is not inside the second half of another create_project
LoopFree(w) ==
    \A v \in Workers \ {w} : ~(Creating(v) /\ calls[v].pc \in {"written", "stored"})

InCreation == Cardinality({v \in Workers : Creating(v)})

create_project(w, form, image, origin) ==
    LET req == [title |-> form.title, description |-> form.description,
                origin |-> origin, image |-> image]
    IN  /\ calls[w].pc = "idle"
        /\ LoopFree(w)
        /\ IF ~image_accepted(image)
           THEN /\ resp' = Response("create_project", req, 400, "Invalid image format", <<>>)
                /\ UNCHANGED <<files, calls>>
           ELSE /\ Len(projects) + InCreation < MaxProjects
                /\ next_id(projects) + InCreation <= MaxProjectId
                /\ files' = [files EXCEPT ![image.filename] = EmptyFile]
                /\ Begin(w, "opened", "create_project", req)
                /\ resp' = resp
        /\ Admitted(w)
        /\ UNCHANGED <<admins, projects, messages, now, issued, contactLog, created, deleted>>

\* buffer.write(await image.read())
create_project_write(w) ==
    /\ At(w, "create_project", "opened")
    /\ LoopFree(w)
    /\ files' = [files EXCEPT ![calls[w].req.image.filename] =
                                  write(@, calls[w].req.image.bytes)]
    /\ Goto(w, "written", NoRow)
    /\ UNCHANGED <<admins, projects, messages, now, issued, contactLog, created, deleted, resp,
                   admitted>>

\* db.add(new_project); db.commit()
create_project_commit(w) ==
    LET req == calls[w].req
        new_project == [id |-> next_id(projects), title |-> req.title,
                        description |-> req.description,
                        image_url |-> image_url_of(req.origin, req.image.filename)]
    IN  /\ At(w, "create_project", "written")
        /\ projects' = Append(projects, new_project)
        /\ created' = Forget(created, new_project.id) \cup
                         {[id |-> new_project.id, title |-> req.title,
                           description |-> req.description, origin |-> req.origin,
                           filename |-> req.image.filename]}
        /\ Goto(w, "stored", new_project)
        /\ UNCHANGED <<admins, messages, files, now, issued, contactLog, deleted, resp, admitted>>

\* db.refresh(new_project); return new_project
create_project_refresh(w) ==
    LET new_project == first_project(projects, calls[w].row.id) IN
    /\ At(w, "create_project", "stored")
    /\ IF new_project = NoRow
       THEN ServerError(w)
       ELSE Answer(w, 200, "", <<new_project>>)
    /\ End(w)
    /\ UNCHANGED <<admins, projects, messages, files, now, issued, contactLog, created, deleted,
                   admitted>>

(* GET /projects/ and GET /projects/{id}: one query each *)

get_projects ==
    /\ resp' = Response("get_projects", <<>>, 200, "", projects)
    /\ UNCHANGED <<admins, calls, projects, messages, files, now, issued, contactLog,
                   created, deleted, admitted>>

get_project(project_id) ==
    LET project == first_project(projects, project_id) IN
    /\ IF project = NoRow
       THEN resp' = Response("get_project", [id |-> project_id], 404, "Project not found", <<>>)
       ELSE resp' = Response("get_project", [id |-> project_id], 200, "", <<project>>)
    /\ UNCHANGED <<admins, calls, projects, messages, files, now, issued, contactLog,
                   created, deleted, admitted>>

(* PUT /projects/{id}: the dependency, the lookup, the commit, the refresh *)

update_project_admin(w, token, project_id, project) ==
    /\ Authorize(w, "update_project", [token |-> token, id |-> project_id, project |-> project])
    /\ Admitted(w)

\* the lookup and the 404 of a handler that works on one project
Lookup(w, op) ==
    LET db_project == first_project(projects, calls[w].req.id) IN
    /\ At(w, op, "authorized")
    /\ IF db_project = NoRow
       THEN /\ Answer(w, 404, "Project not found", <<>>)
            /\ End(w)
       ELSE /\ Goto(w, "loaded", db_project)
            /\ resp' = resp
    /\ UNCHANGED <<admins, projects, messages, files, now, issued, contactLog, created, deleted,
                   admitted>>

update_project(w) == Lookup(w, "update_project")

update_project_commit(w) ==
    LET req == calls[w].req
        cols == Dirty(calls[w].row, req.project)
    IN  /\ At(w, "update_project", "loaded")
        /\ IF cols = {}
           THEN \* nothing to write
                /\ Goto(w, "stored", calls[w].row)
                /\ UNCHANGED <<projects, created, resp>>
           ELSE IF req.id \notin Ids(projects)
           THEN \* the UPDATE matches no row: StaleDataError out of db.commit()
                /\ ServerError(w)
                /\ End(w)
                /\ UNCHANGED <<projects, created>>
           ELSE /\ projects' = update_row(projects, req.id, req.project, cols)
                /\ created' = Forget(created, req.id)
                /\ Goto(w, "stored", calls[w].row)
                /\ resp' = resp
        /\ UNCHANGED <<admins, messages, files, now, issued, contactLog, deleted, admitted>>

\* db.refresh(db_project); return db_project
update_project_refresh(w) ==
    LET db_project == first_project(projects, calls[w].req.id) IN
    /\ At(w, "update_project", "stored")
    /\ IF db_project = NoRow
       THEN ServerError(w)
       ELSE Answer(w, 200, "", <<db_project>>)
    /\ End(w)
    /\ UNCHANGED <<admins, projects, messages, files, now, issued, contactLog, created, deleted,
                   admitted>>

(* DELETE /projects/{id}: the dependency, the lookup, the commit *)

\* faulty variant: delete_project declared without Depends(get_current_admin)
delete_project_anyone(w, token, project_id) ==
    /\ Unguarded(w, "delete_project", [token |-> token, id |-> project_id])
    /\ Admitted(w)

delete_project_admin(w, token, project_id) ==
    /\ Authorize(w, "delete_project", [token |-> token, id |-> project_id])
    /\ Admitted(w)

delete_project(w) == Lookup(w, "delete_project")

\* a DELETE that matches no row is only warned about: the handler answers as usual
delete_project_commit(w) ==
    LET project_id == calls[w].req.id IN
    /\ At(w, "delete_project", "loaded")
    /\ projects' = delete_row(projects, project_id)
    /\ created' = Forget(created, project_id)
    /\ deleted' = IF project_id \in Ids(projects) THEN deleted \cup {project_id} ELSE deleted
    /\ Answer(w, 200, "Project deleted successfully", <<>>)
    /\ End(w)
    /\ UNCHANGED <<admins, messages, files, now, issued, contactLog, admitted>>

----------------------------------------------------------------------------
(* Tokens a caller may present *)

IssuedTokens == {i.token : i \in issued}

\* a token of this server with its payload rewritten and the signature kept
Tampered(token) == [token EXCEPT !.sub = "bob", !.exp = token.exp + 1]

ForgedTokens ==
    {jwt_encode("admin", timedelta_minutes(ACCESS_TOKEN_EXPIRE_MINUTES), OtherKey),
     jwt_encode(NoSub, timedelta_minutes(ACCESS_TOKEN_EXPIRE_MINUTES), SECRET_KEY),
     jwt_encode("", timedelta_minutes(ACCESS_TOKEN_EXPIRE_MINUTES), SECRET_KEY),
     jwt_encode("bob", timedelta_minutes(ACCESS_TOKEN_EXPIRE_MINUTES), SECRET_KEY)}

PresentedTokens == IssuedTokens \cup {Tampered(t) : t \in IssuedTokens}
                       \cup ForgedTokens \cup {NoToken}

----------------------------------------------------------------------------
(* Initial states *)

FirstToken == create_access_token("admin", timedelta_minutes(ACCESS_TOKEN_EXPIRE_MINUTES), 0)

FirstMessage == [name |-> "Ann", email |-> "ann@example.org", message |-> "hello"]

\* the process has started: empty tables (Base.metadata.create_all), empty upload directory
Init ==
    /\ admins = <<>>
    /\ calls = [w \in Workers |-> Idle]
    /\ projects = <<>>
    /\ messages = <<>>
    /\ files = [f \in Filenames |-> NoFile]
    /\ now = 0
    /\ issued = {}
    /\ contactLog = <<>>
    /\ created = {}
    /\ deleted = {}
    /\ admitted = 0
    /\ resp = NoResponse

\* the deployment in service: "admin" has been registered (register-admin is run once)
\* and has logged in at time 0
InitServing ==
    /\ admins = <<[id |-> 1, username |-> "admin", password_hash |-> pwd_hash("s1", "pw")]>>
    /\ calls = [w \in Workers |-> Idle]
    /\ projects = <<>>
    /\ messages = <<>>
    /\ files = [f \in Filenames |-> NoFile]
    /\ now = 0
    /\ issued = {[token |-> FirstToken, iat |-> 0]}
    /\ contactLog = <<>>
    /\ created = {}
    /\ deleted = {}
    /\ admitted = 0
    /\ resp = Response("login_admin", [username |-> "admin", password |-> "pw"], 200, "",
                       <<FirstToken>>)

FirstUpload ==
    [title |-> "Bridge", description |-> "A bridge", origin |-> <<"http://emca.example">>,
     image |-> [filename |-> "cat.png", content_type |-> "image/png", bytes |-> PNG1]]

FirstProject ==
    [id |-> 1, title |-> FirstUpload.title, description |-> FirstUpload.description,
     image_url |-> image_url_of(FirstUpload.origin, FirstUpload.image.filename)]

\* the deployment in service, after a first contact message and a first upload
InitGuard ==
    /\ admins = <<[id |-> 1, username |-> "admin", password_hash |-> pwd_hash("s1", "pw")]>>
    /\ calls = [w \in Workers |-> Idle]
    /\ projects = <<FirstProject>>
    /\ messages = <<[id |-> 1, name |-> FirstMessage.name, email |-> FirstMessage.email,
                     message |-> FirstMessage.message, timestamp |-> 0]>>
    /\ files = [f \in Filenames |->
                  IF f = FirstUpload.image.filename THEN File(FirstUpload.image.bytes)
                  ELSE NoFile]
    /\ now = 0
    /\ issued = {[token |-> FirstToken, iat |-> 0]}
    /\ contactLog = <<[id |-> 1, contact |-> FirstMessage, t |-> 0]>>
    /\ created = {[id |-> 1, title |-> FirstUpload.title,
                   description |-> FirstUpload.description, origin |-> FirstUpload.origin,
                   filename |-> FirstUpload.image.filename]}
    /\ deleted = {}
    /\ admitted = 1
    /\ resp = Response("create_project", FirstUpload, 200, "", <<FirstProject>>)

----------------------------------------------------------------------------
(* Specifications.  The parts of the service share no state but the admins  *)
(* table and the clock, so each part is followed by a specification of its  *)
(* own; those that need an Admin start from InitServing, a state that       *)
(* SpecRegister reaches from Init (one registration, one login).            *)

\* registration and login, with the steps of concurrent registrations interleaved
NextRegister ==
    \/ \E w \in Workers, admin_data \in AdminCreate :
          register_admin_lookup(w, admin_data.username, admin_data.password)
    \/ \E w \in Workers, salt \in Salts : register_admin_commit(w, salt)
    \/ \E u \in Usernames, p \in Passwords : login_admin(u, p)

SpecRegister == Init /\ [][NextRegister]_vars

\* tokens over time
NextToken ==
    \/ \E u \in Usernames, p \in Passwords : login_admin(u, p)
    \/ \E d \in ClockSteps : Tick(d)
    \/ \E w \in Workers, token \in PresentedTokens : get_messages_admin(w, token)
    \/ \E w \in Workers : get_current_admin_lookup(w)
    \/ \E w \in Workers : get_messages(w)

SpecToken == InitServing /\ [][NextToken]_vars

\* a request reaches its handler in the tick it was sent in or in the next one
SentTimes == {t \in 0..now : now <= t + 1}

\* the contact form
NextContact ==
    \/ \E w \in Workers, c \in Contacts, sent \in SentTimes : save_message(w, c, sent)
    \/ \E w \in Workers : save_message_commit(w)
    \/ \E w \in Workers, token \in IssuedTokens \cup {NoToken} : get_messages_admin(w, token)
    \/ \E w \in Workers : get_current_admin_lookup(w)
    \/ \E w \in Workers : get_messages(w)
    \/ Tick(1)

SpecContact == InitServing /\ [][NextContact]_vars

\* projects and the upload directory
NextProject ==
    \/ \E w \in Workers, r \in CreateRequests : create_project(w, r, r.image, r.origin)
    \/ \E w \in Workers : create_project_write(w)
    \/ \E w \in Workers : create_project_commit(w)
    \/ \E w \in Workers : create_project_refresh(w)
    \/ \E w \in Workers : get_current_admin_lookup(w)
    \/ get_projects
    \/ \E id \in ProjectIds : get_project(id)
    \/ \E w \in Workers, token \in IssuedTokens \cup {NoToken}, id \in ProjectIds,
          project \in ProjectSchemas : update_project_admin(w, token, id, project)
    \/ \E w \in Workers : update_project(w)
    \/ \E w \in Workers : update_project_commit(w)
    \/ \E w \in Workers : update_project_refresh(w)
    \/ \E w \in Workers, token \in IssuedTokens \cup {NoToken}, id \in ProjectIds :
          delete_project_admin(w, token, id)
    \/ \E w \in Workers : delete_project(w)
    \/ \E w \in Workers : delete_project_commit(w)

SpecProject == InitServing /\ [][NextProject]_vars

\* the id of the stored project and an id that no project has
GuardIds == {FirstProject.id, FirstProject.id + 1}

\* the admin-only operations, under every kind of bearer token, on a deployment that
\* holds a contact message and a project, while a second Admin is registered; one step
\* of the clock takes the token of time 0 past its expiry
NextGuard ==
    \/ Tick(ExpireTicks + TicksPerSecond)
    \/ \E w \in Workers : register_admin_lookup(w, "bob", "pw")
    \/ \E w \in Workers : register_admin_commit(w, "s1")
    \/ \E w \in Workers, token \in PresentedTokens : get_messages_admin(w, token)
    \/ \E w \in Workers : get_current_admin_lookup(w)
    \/ \E w \in Workers : get_messages(w)
    \/ \E w \in Workers, token \in PresentedTokens, id \in GuardIds,
          project \in ProjectSchemas : update_project_admin(w, token, id, project)
    \/ \E w \in Workers : update_project(w)
    \/ \E w \in Workers : update_project_commit(w)
    \/ \E w \in Workers : update_project_refresh(w)
    \/ \E w \in Workers, token \in PresentedTokens, id \in GuardIds :
          delete_project_admin(w, token, id)
    \/ \E w \in Workers : delete_project(w)
    \/ \E w \in Workers : delete_project_commit(w)

SpecGuard == InitGuard /\ [][NextGuard]_vars

Next == NextRegister \/ NextToken \/ NextContact \/ NextProject \/ NextGuard

Spec == Init /\ [][Next]_vars

----------------------------------------------------------------------------
(* Claims about registration (SpecRegister) *)

\* C3: in every reachable state, whatever the interleaving of the lookup and commit
\* steps of concurrent register_admin requests, no two Admin rows share a username.
C3_UsernameUnique ==
    \A i, j \in 1..Len(admins) : admins[i].username = admins[j].username => i = j

\* C3 witness: two requests for one username both passed the lookup, one was stored
\* and the commit of the other was refused.
C3_RaceRefused ==
    /\ resp.op = "register_admin"
    /\ resp.status = 500
    /\ first_admin(admins, resp.req.username) # NoRow

\* C4: a register_admin request for a username that is already registered answers 400
\* and never reaches the insert; it leaves the table as it was; credentials that
\* authenticate keep authenticating as the same Admin across every step; and a login
\* with credentials that authenticate answers 200 with a token for that Admin.
C4_SecondRegistrationConflicts ==
    /\ [][\A w \in Workers :
            (calls[w].pc = "idle" /\ calls'[w].pc = "checked")
               => first_admin(admins, calls'[w].req.username) = NoRow]_vars
    /\ [][(resp'.op = "register_admin" /\ resp' # resp /\ calls' = calls)
            => /\ first_admin(admins, resp'.req.username) # NoRow
               /\ resp'.status = 400
               /\ admins' = admins]_vars
    /\ [][\A u \in Usernames, p \in Passwords :
            authenticate_admin(admins, u, p) # NoRow
               => authenticate_admin(admins', u, p) = authenticate_admin(admins, u, p)]_vars
    /\ [][(resp'.op = "login_admin" /\ resp' # resp
             /\ authenticate_admin(admins, resp'.req.username, resp'.req.password) # NoRow)
            => /\ resp'.status = 200
               /\ Len(resp'.body) = 1
               /\ resp'.body[1].sub = resp'.req.username
               /\ jwt_signature_ok(resp'.body[1])]_vars

\* C4 witness: a second registration of a registered username, with another password,
\* was refused with 400 while the first password still authenticates.
C4_ConflictSeen ==
    /\ resp.op = "register_admin"
    /\ resp.status = 400
    /\ \E p \in Passwords :
          /\ p # resp.req.password
          /\ authenticate_admin(admins, resp.req.username, p) # NoRow

----------------------------------------------------------------------------
(* Claims about tokens (SpecToken) *)

Outcome(token) == get_current_admin(admins, token, now)

Refused(token) == Outcome(token).status # 200

\* C2 as stated: whenever a request is refused, every token that is refused now (bad
\* signature, expired, no subject, unknown subject, no token at all) gets the very
\* same status and error body as that response.
C2_IdenticalOutcome ==
    (resp.op = "get_messages" /\ resp.status # 200)
       => \A token \in PresentedTokens :
             Refused(token) => Outcome(token) = [status |-> resp.status, detail |-> resp.detail]

\* C2 amended: every refusal has status 401; the refusals of a presented token (bad
\* signature, expired, no subject, unknown subject) all carry the same body; the refusal
\* of a request without token carries the bearer scheme's own body.
C2_SameStatusAndSameBodyForPresentedTokens ==
    (resp.op = "get_messages" /\ resp.status # 200)
       => /\ resp.status = 401
          /\ \A token \in PresentedTokens :
                Refused(token)
                   => /\ Outcome(token).status = resp.status
                      /\ (token = NoToken) = (resp.req.token = NoToken)
                            => Outcome(token).detail = resp.detail
          /\ resp.req.token = NoToken <=> resp.detail = "Not authenticated"

\* C2 witness: a token of this server was refused after it expired, while the forged
\* and tampered tokens are refused as well.
C2_ExpiredTokenRefused ==
    /\ resp.op = "get_messages"
    /\ resp.status = 401
    /\ resp.req.token \in IssuedTokens
    /\ jwt_signature_ok(resp.req.token)
    /\ \A token \in PresentedTokens \ IssuedTokens : Refused(token)

\* C9 as stated: a token issued at t resolves before t + 30 minutes and is refused at
\* or after t + 30 minutes.
C9_ExpiresAtThirtyMinutes ==
    \A i \in issued :
       Refused(i.token) <=> now >= i.iat + ExpireTicks

\* C9 amended: the expiry is kept and compared in whole seconds, and a token whose
\* expiry second is the current second is still accepted: a token issued at t resolves
\* exactly as long as the clock's whole second is at most t's whole second plus 30
\* minutes.  So it resolves before t + 30 minutes, is refused from t + 30 minutes + 1
\* second on, and nothing (a use of it, another login) moves its expiry.  The expiry is
\* looked at once per request, when the token is decoded, before the handler's body: a
\* request is taken up only with a token that is not expired at that moment, a request
\* with a token of this server is refused only when the token has expired, and the body
\* answers whatever the clock shows by then.
C9_ExpiresWithinASecondAfterThirtyMinutes ==
    /\ [](\A i \in issued :
            /\ i.token.exp = utc_seconds(i.iat)
                                 + ACCESS_TOKEN_EXPIRE_MINUTES * SecondsPerMinute
            /\ ~Refused(i.token)
                  <=> utc_seconds(now) <= utc_seconds(i.iat)
                                             + ACCESS_TOKEN_EXPIRE_MINUTES * SecondsPerMinute
            /\ now < i.iat + ExpireTicks => ~Refused(i.token)
            /\ now >= i.iat + ExpireTicks + TicksPerSecond => Refused(i.token))
    /\ [][\A w \in Workers :
            (calls[w].pc = "idle" /\ calls'[w].pc # "idle")
               => /\ calls'[w].pc = "decoded"
                  /\ ~jwt_expired(calls'[w].req.token, now)]_vars
    /\ [][(resp'.op = "get_messages" /\ resp' # resp /\ calls' = calls)
            => /\ resp'.status = 401
               /\ Refused(resp'.req.token)
               /\ resp'.req.token \in IssuedTokens
                     => utc_seconds(now) > resp'.req.token.exp]_vars
    /\ [][(resp'.op = "get_messages" /\ resp' # resp /\ calls' # calls
             /\ resp'.req.token \in IssuedTokens)
            => resp'.status = 200]_vars

\* C9 witness: a token is refused a second after its 30 minutes, while the token of a
\* later login resolves and a request taken up with the expired token before its expiry
\* is still to be answered.
C9_TokenRefusedAfterExpiry ==
    \E i \in issued :
       /\ now >= i.iat + ExpireTicks + TicksPerSecond
       /\ resp.op = "get_messages"
       /\ resp.req.token = i.token
       /\ resp.status = 401
       /\ \E j \in issued : j.iat > i.iat /\ ~Refused(j.token)
       /\ \E w \in Workers : calls[w].pc = "authorized" /\ calls[w].req.token = i.token

----------------------------------------------------------------------------
(* Claims about the contact form (SpecContact) *)

Listed(k, floor) ==
    /\ Cardinality({i \in 1..Len(resp.body) : resp.body[i].id = contactLog[k].id}) = 1
    /\ resp.body[k].id = contactLog[k].id
    /\ resp.body[k].name = contactLog[k].contact.name
    /\ resp.body[k].email = contactLog[k].contact.email
    /\ resp.body[k].message = contactLog[k].contact.message
    /\ strptime(resp.body[k].timestamp) >= floor

\* C10 as stated: an authenticated list holds, for every accepted submission, exactly
\* one entry, in submission order, with the submitted fields and a timestamp no earlier
\* than the time the request was sent.
C10_ListedWithLaterTimestamp ==
    (resp.op = "get_messages" /\ resp.status = 200)
       => /\ Len(resp.body) = Len(contactLog)
          /\ \A k \in 1..Len(contactLog) : Listed(k, contactLog[k].t)

\* C10 amended: the same, with the listed timestamp, which is given to the whole second,
\* no earlier than the request time cut down to the whole second; and no step changes or
\* reorders a stored message.
C10_ListedWithTimestampOfTheSecond ==
    /\ []((resp.op = "get_messages" /\ resp.status = 200)
            => /\ Len(resp.body) = Len(contactLog)
               /\ \A k \in 1..Len(contactLog) :
                     Listed(k, strptime(utc_seconds(contactLog[k].t))))
    /\ [][\A k \in 1..Len(messages) :
             Len(messages') >= k /\ messages'[k] = messages[k]]_vars

\* C10 witness: two submissions are listed, one of them sent in the middle of a second
\* and stored in a later tick.
C10_TwoListed ==
    /\ resp.op = "get_messages"
    /\ resp.status = 200
    /\ Len(resp.body) = 2
    /\ \E k \in 1..Len(contactLog) :
          /\ contactLog[k].t % TicksPerSecond # 0
          /\ contactLog[k].t < messages[k].timestamp

----------------------------------------------------------------------------
(* Claims about projects (SpecProject) *)

StoragePath(filename) == <<"/", "uploads", "/", filename>>

\* the URL names a file of the upload directory that has been written
PointsToStoredFile(url) ==
    /\ Len(url) > 4
    /\ SubSeq(url, Len(url) - 3, Len(url) - 1) = <<"/", "uploads", "/">>
    /\ url[Len(url)] \in DOMAIN files
    /\ files[url[Len(url)]] \notin {NoFile, EmptyFile}

\* C5: in every reachable state the image_url of every Project row points to a file
\* that has been written to the upload directory.
C5_ImageUrlPointsToStoredFile ==
    \A i \in 1..Len(projects) : PointsToStoredFile(projects[i].image_url)

\* C6: a create_project whose image content-type is not an accepted one answers 400 at
\* once, inserts no row and writes no file, a stored file of the same name included;
\* and a create_project that went on to open the file had an accepted content-type.
C6_RejectedUploadChangesNothing ==
    /\ [][(resp'.op = "create_project" /\ resp' # resp
             /\ resp'.req.image.content_type \notin {"image/png", "image/jpeg", "image/jpg"})
            => /\ resp'.status = 400
               /\ projects' = projects
               /\ files' = files
               /\ calls' = calls]_vars
    /\ [](\A w \in Workers :
            Creating(w)
               => calls[w].req.image.content_type \in {"image/png", "image/jpeg", "image/jpg"})

\* C6 witness: a text/plain upload was refused while a file of its name is stored with
\* other bytes and a row exists.
C6_RejectedOverStoredFile ==
    /\ resp.op = "create_project"
    /\ resp.status = 400
    /\ resp.req.image.content_type = "text/plain"
    /\ files[resp.req.image.filename]
          \notin {NoFile, EmptyFile, File(resp.req.image.bytes)}
    /\ projects # <<>>

\* C7: a get_project of an id that create_project has committed, and that no update or
\* delete has written to since, returns the id, the submitted title and description, and
\* image_url = base URL + "/uploads/" + filename; and the create_project that committed
\* it, when it answers 200, answers that same row.
C7_CreateThenGet ==
    [][\A c \in created :
         LET row == [id |-> c.id, title |-> c.title, description |-> c.description,
                     image_url |-> c.origin \o StoragePath(c.filename)]
         IN  /\ (resp' # resp /\ resp'.op = "get_project" /\ resp'.req.id = c.id)
                   => (resp'.status = 200 /\ resp'.body = <<row>>)
             /\ (resp' # resp /\ resp'.op = "create_project" /\ resp'.status = 200
                   /\ resp'.body[1].id = c.id)
                   => resp'.body = <<row>>]_vars

\* C7 witness: such a get succeeded for a project created under a root path, whose
\* create_project has answered, after another project was created and deleted.
C7_GetAfterOtherChanges ==
    \E c \in created :
       /\ resp.op = "get_project"
       /\ resp.req.id = c.id
       /\ resp.status = 200
       /\ Len(c.origin) > 1
       /\ deleted # {}
       /\ \A w \in Workers : calls[w].pc = "idle"

\* C8 as stated: an id removed by delete_project never appears again in the table.
C8_DeletedIdNeverReturns ==
    \A id \in deleted : id \notin Ids(projects)

\* worker w takes a step of its delete_project from position pc
DeleteStep(w, pc) == At(w, "delete_project", pc) /\ calls'[w] # calls[w]

\* C8 amended: delete_project by a resolved Admin answers 404 and leaves the table alone
\* when the id is absent at its lookup; otherwise its commit answers 200, removes the row
\* of that id if it is still there and no other row; every get_projects answers the
\* table and get_project answers 404 for an absent id; and an absent id comes back only
\* as the id assigned to a new row by create_project.
C8_DeleteRemovesOneRow ==
    /\ [][\A w \in Workers :
            DeleteStep(w, "authorized")
               => /\ projects' = projects
                  /\ IF calls[w].req.id \in Ids(projects)
                     THEN calls'[w].pc = "loaded" /\ resp' = resp
                     ELSE /\ calls'[w] = Idle
                          /\ resp'.op = "delete_project"
                          /\ resp'.req = calls[w].req
                          /\ resp'.status = 404]_vars
    /\ [][\A w \in Workers :
            DeleteStep(w, "loaded")
               => /\ calls'[w] = Idle
                  /\ resp'.op = "delete_project"
                  /\ resp'.req = calls[w].req
                  /\ resp'.status = 200
                  /\ Ids(projects') = Ids(projects) \ {calls[w].req.id}
                  /\ \A i \in 1..Len(projects) :
                        projects[i].id # calls[w].req.id
                           => projects[i] \in SeqToSet(projects')
                  /\ Len(projects') = Cardinality(Ids(projects'))]_vars
    /\ [][(resp' # resp /\ resp'.op = "get_projects") => resp'.body = projects]_vars
    /\ [][(resp' # resp /\ resp'.op = "get_project" /\ resp'.req.id \notin Ids(projects))
            => resp'.status = 404]_vars
    /\ [][\A id \in ProjectIds :
            (id \notin Ids(projects) /\ id \in Ids(projects'))
               => \E w \in Workers :
                     /\ At(w, "create_project", "written")
                     /\ calls'[w].pc = "stored"
                     /\ calls'[w].row.id = id]_vars

\* C8 witness: one of two projects was deleted, the other is still there, and a later
\* get_project of the deleted id answered 404.
C8_DeletedThenNotFound ==
    /\ resp.op = "get_project"
    /\ resp.status = 404
    /\ resp.req.id \in deleted
    /\ resp.req.id \notin Ids(projects)
    /\ projects # <<>>

----------------------------------------------------------------------------
(* Claims about the admin-only operations (SpecGuard) *)

AdminOnly == {"update_project", "delete_project", "get_messages"}

\* the token has been decoded: nothing but the clock can have turned it down since
DecodedOnce(token) ==
    /\ token # NoToken
    /\ jwt_signature_ok(token)
    /\ ~Falsy(token.sub)

\* the token has passed get_current_admin
ResolvedOnce(token) == DecodedOnce(token) /\ first_admin(admins, token.sub) # NoRow

Unchanged == projects' = projects /\ messages' = messages /\ files' = files

\* C1: a request to update_project, delete_project or get_messages whose bearer token
\* does not resolve to an Admin (it is missing, does not decode when get_current_admin
\* decodes it, or names no Admin when get_current_admin looks its subject up) answers
\* 401, returns nothing, leaves the projects and contact_messages tables as they were,
\* whatever the project id, and never reaches the body of its handler; and only the body
\* of a handler changes a row of projects or answers one of these operations with
\* anything but 401.
C1_AdminOnly ==
    /\ [][\A w \in Workers :
            (calls[w].pc = "idle" /\ calls'[w].pc # "idle" /\ calls'[w].op \in AdminOnly)
               => /\ calls'[w].pc = "decoded"
                  /\ get_current_admin_decode(calls'[w].req.token, now).status = 200
                  /\ Unchanged]_vars
    /\ [][\A w \in Workers :
            (calls[w].pc = "decoded" /\ calls'[w] # calls[w])
               => /\ Unchanged
                  /\ IF first_admin(admins, calls[w].req.token.sub) # NoRow
                     THEN calls'[w].pc = "authorized" /\ resp' = resp
                     ELSE /\ calls'[w] = Idle
                          /\ resp'.op = calls[w].op
                          /\ resp'.req = calls[w].req
                          /\ resp'.status = 401
                          /\ resp'.body = <<>>]_vars
    /\ [][(resp'.op \in AdminOnly /\ resp' # resp /\ calls' = calls)
            => /\ get_current_admin_decode(resp'.req.token, now).status # 200
               /\ resp'.status = 401
               /\ resp'.body = <<>>
               /\ Unchanged]_vars
    /\ [][((resp'.op \in AdminOnly /\ resp' # resp /\ resp'.status # 401)
             \/ \E i \in 1..Len(projects) : projects[i] \notin SeqToSet(projects'))
            => \E w \in Workers :
                  /\ calls[w].op \in AdminOnly
                  /\ calls[w].pc \notin {"idle", "decoded"}
                  /\ calls'[w] # calls[w]]_vars
    /\ [](\A w \in Workers :
            (calls[w].op \in AdminOnly /\ calls[w].pc # "idle")
               => IF calls[w].pc = "decoded" THEN DecodedOnce(calls[w].req.token)
                  ELSE ResolvedOnce(calls[w].req.token))

\* C1 witness: a delete of an existing project with an expired token of this server was
\* refused, with a message in store.
C1_ExpiredTokenOnExistingProject ==
    /\ resp.op = "delete_project"
    /\ resp.status = 401
    /\ resp.req.token \in IssuedTokens
    /\ resp.req.id \in Ids(projects)
    /\ messages # <<>>

====
